---------------------------- MODULE Spec2Model ----------------------------
(***************************************************************************)
(* Model of src/trabalho_pi.py: grayscale conversion, histogram, Otsu      *)
(* threshold selection and binarization.                                   *)
(*                                                                         *)
(* The Python code computes the class means and the between-class variance *)
(* in IEEE-754 binary64 (numpy float64).  TLC has no floating point, so    *)
(* binary64 values are modelled exactly: a value is a sign, a natural      *)
(* number significand (a little-endian sequence of limbs in base 2^13) and *)
(* a binary exponent, and every arithmetic operation computes the exact    *)
(* result and then rounds it to 53 significant bits, ties to even.         *)
(* Subnormals, infinities and NaN are not modelled: with the pixel counts  *)
(* of this model no operation leaves the normal range.                     *)
(***************************************************************************)
EXTENDS Integers, Sequences, FiniteSets

(***************************************************************************)
(* Natural numbers of arbitrary size: <<>> is 0, limb 1 is least           *)
(* significant, the last limb is never 0.                                  *)
(***************************************************************************)
LimbBits == 13

Base == 2^LimbBits

RECURSIVE NatOf(_)
NatOf(n) == IF n = 0 THEN <<>> ELSE <<n % Base>> \o NatOf(n \div Base)

RECURSIVE IntOf(_)
IntOf(a) == IF a = <<>> THEN 0 ELSE a[1] + Base * IntOf(Tail(a))

RECURSIVE Norm(_)
Norm(a) ==
    IF a = <<>> THEN a
    ELSE IF a[Len(a)] = 0 THEN Norm(SubSeq(a, 1, Len(a) - 1))
    ELSE a

RECURSIVE AddC(_, _, _)
AddC(a, b, c) ==
    IF a = <<>> /\ b = <<>> THEN (IF c = 0 THEN <<>> ELSE <<c>>)
    ELSE LET x == IF a = <<>> THEN 0 ELSE a[1]
             y == IF b = <<>> THEN 0 ELSE b[1]
             s == x + y + c
         IN  <<s % Base>> \o AddC(IF a = <<>> THEN a ELSE Tail(a),
                                  IF b = <<>> THEN b ELSE Tail(b),
                                  s \div Base)

AddN(a, b) == AddC(a, b, 0)

\* a - b - c for a >= b + c, before normalisation
RECURSIVE SubB(_, _, _)
SubB(a, b, c) ==
    IF a = <<>> THEN <<>>
    ELSE LET y == IF b = <<>> THEN 0 ELSE b[1]
             d == a[1] - y - c
         IN  <<d % Base>> \o SubB(Tail(a),
                                  IF b = <<>> THEN b ELSE Tail(b),
                                  IF d < 0 THEN 1 ELSE 0)

SubN(a, b) == Norm(SubB(a, b, 0))

\* a * k + c, for 0 <= k < 2^17
RECURSIVE MulSmallC(_, _, _)
MulSmallC(a, k, c) ==
    IF a = <<>> THEN NatOf(c)
    ELSE LET p == a[1] * k + c
         IN  <<p % Base>> \o MulSmallC(Tail(a), k, p \div Base)

RECURSIVE MulN(_, _)
MulN(a, b) ==
    IF a = <<>> \/ b = <<>> THEN <<>>
    ELSE LET rest == MulN(a, Tail(b))
             low  == Norm(MulSmallC(a, b[1], 0))
         IN  AddN(low, IF rest = <<>> THEN rest ELSE <<0>> \o rest)

\* quotient and remainder of the limbs a[1..i] (with r carried in from above)
\* by d, for 0 < d < 2^18
RECURSIVE DivRec(_, _, _, _)
DivRec(a, i, r, d) ==
    IF i = 0 THEN [q |-> <<>>, r |-> r]
    ELSE LET cur  == r * Base + a[i]
             rest == DivRec(a, i - 1, cur % d, d)
         IN  [q |-> Append(rest.q, cur \div d), r |-> rest.r]

DivSmall(a, d) ==
    LET qr == DivRec(a, Len(a), 0, d) IN [q |-> Norm(qr.q), r |-> qr.r]

RECURSIVE BitLenInt(_)
BitLenInt(n) == IF n = 0 THEN 0 ELSE 1 + BitLenInt(n \div 2)

BitLen(a) ==
    IF a = <<>> THEN 0 ELSE (Len(a) - 1) * LimbBits + BitLenInt(a[Len(a)])

ShiftL(a, k) ==
    IF a = <<>> THEN a
    ELSE [i \in 1..(k \div LimbBits) |-> 0] \o MulSmallC(a, 2^(k % LimbBits), 0)

ShiftR(a, k) ==
    LET w == k \div LimbBits
    IN  IF w >= Len(a) THEN <<>>
        ELSE DivSmall(SubSeq(a, w + 1, Len(a)), 2^(k % LimbBits)).q

RECURSIVE CmpFrom(_, _, _)
CmpFrom(a, b, i) ==
    IF i = 0 THEN 0
    ELSE IF a[i] > b[i] THEN 1
    ELSE IF a[i] < b[i] THEN -1
    ELSE CmpFrom(a, b, i - 1)

\* -1, 0 or 1 as a < b, a = b or a > b
CmpN(a, b) ==
    IF Len(a) > Len(b) THEN 1
    ELSE IF Len(a) < Len(b) THEN -1
    ELSE CmpFrom(a, b, Len(a))

RECURSIVE TrailingZerosInt(_)
TrailingZerosInt(n) == IF n % 2 = 1 THEN 0 ELSE 1 + TrailingZerosInt(n \div 2)

RECURSIVE TrailingZeros(_)
TrailingZeros(a) ==
    IF a[1] = 0 THEN LimbBits + TrailingZeros(Tail(a))
    ELSE TrailingZerosInt(a[1])

(***************************************************************************)
(* binary64 values: (-1)^sig * m * 2^e, with m odd and below 2^53, or m    *)
(* zero.                                                                   *)
(***************************************************************************)
MantBits == 53

FZero == [sig |-> 0, m |-> <<>>, e |-> 0]

Canon(sig, n, e) ==
    IF n = <<>> THEN FZero
    ELSE LET z == TrailingZeros(n)
         IN  [sig |-> sig, m |-> ShiftR(n, z), e |-> e + z]

\* n * 2^e rounded to MantBits significant bits, ties to even
Round53(sig, n, e) ==
    LET len == BitLen(n)
    IN  IF len <= MantBits THEN Canon(sig, n, e)
        ELSE LET k    == len - MantBits
                 q    == ShiftR(n, k)
                 rem  == SubN(n, ShiftL(q, k))
                 half == ShiftL(<<1>>, k - 1)
                 c    == CmpN(rem, half)
                 up   == c = 1 \/ (c = 0 /\ q[1] % 2 = 1)
             IN  Canon(sig, IF up THEN AddN(q, <<1>>) ELSE q, e + k)

\* float64(n) for an integer 0 <= n < 2^31
FofInt(n) == Canon(0, NatOf(n), 0)

\* float64(a) / float64(b) for integers a >= 0 and 0 < b < 2^18
Fdiv(a, b) ==
    IF a = 0 THEN FZero
    ELSE LET s  == MantBits + 2 + BitLenInt(b)
             qr == DivSmall(ShiftL(NatOf(a), s), b)
             n  == AddC(qr.q, qr.q, IF qr.r = 0 THEN 0 ELSE 1)
         IN  Round53(0, n, 0 - s - 1)

Fneg(x) == IF x.m = <<>> THEN x ELSE [x EXCEPT !.sig = 1 - x.sig]

Fadd(x, y) ==
    IF x.m = <<>> THEN y
    ELSE IF y.m = <<>> THEN x
    ELSE LET el == IF x.e < y.e THEN x.e ELSE y.e
             xm == ShiftL(x.m, x.e - el)
             ym == ShiftL(y.m, y.e - el)
             c  == CmpN(xm, ym)
         IN  IF x.sig = y.sig THEN Round53(x.sig, AddN(xm, ym), el)
             ELSE IF c = 0 THEN FZero
             ELSE IF c = 1 THEN Round53(x.sig, SubN(xm, ym), el)
             ELSE Round53(y.sig, SubN(ym, xm), el)

Fsub(x, y) == Fadd(x, Fneg(y))

Fmul(x, y) ==
    IF x.m = <<>> \/ y.m = <<>> THEN FZero
    ELSE Round53((x.sig + y.sig) % 2, MulN(x.m, y.m), x.e + y.e)

\* x > y
Fgt(x, y) ==
    LET d == Fsub(x, y) IN d.m # <<>> /\ d.sig = 0

\* the integer part of x, for 0 <= x < 2^31
Ftrunc(x) ==
    IF x.m = <<>> THEN 0
    ELSE IF x.e >= 0 THEN IntOf(ShiftL(x.m, x.e))
    ELSE IntOf(ShiftR(x.m, 0 - x.e))

\* x ** 2.  numpy evaluates float64 ** 2 with the C library's pow, which is
\* accurate to under one unit in the last place; the model takes the correctly
\* rounded square.
Fquadrado(x) == Fmul(x, x)

(***************************************************************************)
(* calcular_limiar_otsu                                                    *)
(***************************************************************************)
Niveis == 256

Tons == 0..(Niveis - 1)

\* sum of f[i] * (IF ponderada THEN i ELSE 1) for i in lo..hi, by halving
\* (np.sum, and the loop of lines 92-94)
RECURSIVE SomaEntre(_, _, _, _)
SomaEntre(h, lo, hi, ponderada) ==
    IF lo > hi THEN 0
    ELSE IF lo = hi THEN (IF ponderada THEN lo * h[lo] ELSE h[lo])
    ELSE LET meio == (lo + hi) \div 2
         IN  SomaEntre(h, lo, meio, ponderada)
               + SomaEntre(h, meio + 1, hi, ponderada)

SomaAte(h, t) == SomaEntre(h, 0, t, FALSE)

SomaPonderadaAte(h, t) == SomaEntre(h, 0, t, TRUE)

\* the locals before the loop (lines 90-99); limiar is the loop variable,
\* -1 while the loop has not started; ramo is the way the last iteration ended
OtsuInicio(h) ==
    [total_pixels     |-> SomaAte(h, Niveis - 1),
     soma_total       |-> SomaPonderadaAte(h, Niveis - 1),
     soma_fundo       |-> 0,
     peso_fundo       |-> 0,
     variancia_maxima |-> FZero,
     limiar_otimo     |-> 0,
     limiar           |-> -1,
     variancia_entre  |-> FZero,
     ramo             |-> "inicio"]

\* mutant of Para: the scan stops one foreground pixel too early
ParaCedo(peso_objeto) == peso_objeto <= 1

\* line 104
Pula(peso_fundo) == peso_fundo = 0

\* line 109
Para(peso_objeto) == peso_objeto = 0

\* lines 114-117
Variancia(soma_fundo, peso_fundo, soma_total, peso_objeto) ==
    LET media_fundo  == Fdiv(soma_fundo, peso_fundo)
        media_objeto == Fdiv(soma_total - soma_fundo, peso_objeto)
    IN  Fmul(FofInt(peso_fundo * peso_objeto),
             Fquadrado(Fsub(media_fundo, media_objeto)))

\* mutant of Melhor: a candidate of equal score replaces the best one
MelhorOuIgual(variancia_entre, variancia_maxima) ==
    ~Fgt(variancia_maxima, variancia_entre)

\* mutant of Melhor: the comparison is inverted
MelhorInvertido(variancia_entre, variancia_maxima) ==
    Fgt(variancia_maxima, variancia_entre)

\* line 119
Melhor(variancia_entre, variancia_maxima) ==
    Fgt(variancia_entre, variancia_maxima)

\* mutant of SomaFundoNova: the count of the bin is left out
SomaFundoSemContagem(soma_fundo, limiar, contagem) == soma_fundo + limiar

\* line 112
SomaFundoNova(soma_fundo, limiar, contagem) == soma_fundo + limiar * contagem

\* how the iteration for the next value of limiar ends
RamoDe(h, st) ==
    LET peso_fundo == st.peso_fundo + h[st.limiar + 1]
    IN  IF Pula(peso_fundo) THEN "continue"
        ELSE IF Para(st.total_pixels - peso_fundo) THEN "break"
        ELSE "pontuado"

\* one iteration of the loop of lines 101-121
OtsuPasso(h, st) ==
    LET limiar      == st.limiar + 1
        peso_fundo  == st.peso_fundo + h[limiar]
        peso_objeto == st.total_pixels - peso_fundo
        soma_fundo  == SomaFundoNova(st.soma_fundo, limiar, h[limiar])
        variancia_entre ==
            Variancia(soma_fundo, peso_fundo, st.soma_total, peso_objeto)
        melhor      == Melhor(variancia_entre, st.variancia_maxima)
    IN  IF Pula(peso_fundo)
        THEN [st EXCEPT !.limiar = limiar, !.peso_fundo = peso_fundo,
                        !.ramo = "continue"]
        ELSE IF Para(peso_objeto)
        THEN [st EXCEPT !.limiar = limiar, !.peso_fundo = peso_fundo,
                        !.ramo = "break"]
        ELSE [st EXCEPT !.limiar = limiar, !.peso_fundo = peso_fundo,
                        !.soma_fundo = soma_fundo,
                        !.variancia_entre = variancia_entre,
                        !.variancia_maxima =
                            IF melhor THEN variancia_entre ELSE @,
                        !.limiar_otimo = IF melhor THEN limiar ELSE @,
                        !.ramo = "pontuado"]

\* the loop is over: break was taken or range(256) is exhausted
OtsuTerminou(st) == st.ramo = "break" \/ st.limiar = Niveis - 1

\* mutant of OtsuRetorno: the loop variable is returned
RetornaLimiarCorrente(st) == st.limiar

\* line 125
OtsuRetorno(st) == st.limiar_otimo

\* at most n iterations of the loop, stopping where the loop stops
RECURSIVE OtsuRepete(_, _, _)
OtsuRepete(h, st, n) ==
    IF n = 0 \/ OtsuTerminou(st) THEN st
    ELSE IF n = 1 THEN OtsuPasso(h, st)
    ELSE OtsuRepete(h, OtsuRepete(h, st, n \div 2), n - n \div 2)

OtsuLaco(h, st) == OtsuRepete(h, st, Niveis)

calcular_limiar_otsu(h) == OtsuRetorno(OtsuLaco(h, OtsuInicio(h)))

(***************************************************************************)
(* rgb_para_cinza, calcular_histograma, binarizar_imagem.  A matrix is a   *)
(* sequence of rows, each a sequence of pixels.                            *)
(***************************************************************************)
Altura(m) == Len(m)

Largura(m) == IF Len(m) = 0 THEN 0 ELSE Len(m[1])

Posicoes(m) == {<<i, j>> : i \in 1..Altura(m), j \in 1..Largura(m)}

\* np.clip(x, 0, 255), line 50
Clip(x) ==
    IF Fgt(FZero, x) THEN FZero
    ELSE IF Fgt(x, FofInt(Niveis - 1)) THEN FofInt(Niveis - 1)
    ELSE x

\* mutant of ParaUint8: rounds to the nearest integer
ArredondaUint8(x) == Ftrunc(Fadd(x, Fdiv(1, 2)))

\* astype(np.uint8) of a clipped value: the fraction is dropped, line 50
ParaUint8(x) == Ftrunc(x)

\* lines 49-50 for one pixel; the literals 0.299, 0.587 and 0.114 are the
\* binary64 values nearest to 299/1000, 587/1000 and 114/1000
CinzaDe(r, g, b) ==
    LET cinza == Fadd(Fadd(Fmul(Fdiv(299, 1000), FofInt(r)),
                           Fmul(Fdiv(587, 1000), FofInt(g))),
                      Fmul(Fdiv(114, 1000), FofInt(b)))
    IN  ParaUint8(Clip(cinza))

rgb_para_cinza(imagem) ==
    [i \in 1..Altura(imagem) |->
        [j \in 1..Largura(imagem) |->
            CinzaDe(imagem[i][j][1], imagem[i][j][2], imagem[i][j][3])]]

\* np.sum(matriz_cinza == valor), line 71
Contagem(m, valor) ==
    Cardinality({p \in Posicoes(m) : m[p[1]][p[2]] = valor})

\* mutant of calcular_histograma: the last bin is never counted
HistogramaSemUltimo(m) ==
    [valor \in Tons |-> IF valor = Niveis - 1 THEN 0 ELSE Contagem(m, valor)]

\* lines 68-71
calcular_histograma(m) == [valor \in Tons |-> Contagem(m, valor)]

\* mutant of BinarioDe: a pixel equal to the threshold becomes white
BinarioInclusivo(valor, limiar) == IF valor >= limiar THEN 255 ELSE 0

\* mutant of BinarioDe: white is written as 1
BinarioUm(valor, limiar) == IF valor > limiar THEN 1 ELSE 0

\* np.where(matriz_cinza > limiar, 255, 0), line 139
BinarioDe(valor, limiar) == IF valor > limiar THEN 255 ELSE 0

binarizar_imagem(m, limiar) ==
    [i \in 1..Altura(m) |->
        [j \in 1..Largura(m) |-> BinarioDe(m[i][j], limiar)]]

(***************************************************************************)
(* State                                                                   *)
(***************************************************************************)
VARIABLES
    pc,             \* the step the program is at
    imagem_rgb,     \* the RGB image passed to rgb_para_cinza
    matriz_cinza,   \* the grayscale matrix
    histograma,     \* the histogram
    otsu,           \* the locals of calcular_limiar_otsu
    limiar_final,   \* the value calcular_limiar_otsu returned
    limiar_bin,     \* the threshold passed to binarizar_imagem
    matriz_binaria  \* the matrix binarizar_imagem returned

vars == <<pc, imagem_rgb, matriz_cinza, histograma, otsu, limiar_final,
          limiar_bin, matriz_binaria>>

\* a value not computed yet
Nenhum == <<>>

(***************************************************************************)
(* calcular_limiar_otsu called on a histogram, one loop iteration per step *)
(***************************************************************************)
MaxPixels == 4

TonsEntrada == {0, 1, 2, 3, 255}

RECURSIVE SomaEm(_, _)
SomaEm(f, S) ==
    IF S = {} THEN 0
    ELSE LET x == CHOOSE y \in S : TRUE IN f[x] + SomaEm(f, S \ {x})

HistDe(f) == [t \in Tons |-> IF t \in DOMAIN f THEN f[t] ELSE 0]

\* histograms of at most MaxPixels pixels whose values are in TonsEntrada
HistVarios ==
    {HistDe(f) : f \in {g \in [TonsEntrada -> 0..MaxPixels] :
                            SomaEm(g, TonsEntrada) <= MaxPixels}}

\* histograms with a single non-zero bin
HistUmTom ==
    {[t \in Tons |-> IF t = k THEN c ELSE 0] : k \in Tons, c \in 1..MaxPixels}

\* 4800 pixels of value 50 and 4800 of value 200
HistMetades == [t \in Tons |-> IF t = 50 \/ t = 200 THEN 4800 ELSE 0]

InitOtsu ==
    /\ histograma \in HistVarios \cup HistUmTom \cup {HistMetades}
    /\ otsu = OtsuInicio(histograma)
    /\ pc = "laco"
    /\ limiar_final = Nenhum
    /\ imagem_rgb = Nenhum
    /\ matriz_cinza = Nenhum
    /\ limiar_bin = Nenhum
    /\ matriz_binaria = Nenhum

IteracaoContinue ==
    /\ pc = "laco"
    /\ ~OtsuTerminou(otsu)
    /\ RamoDe(histograma, otsu) = "continue"
    /\ otsu' = OtsuPasso(histograma, otsu)
    /\ UNCHANGED <<pc, imagem_rgb, matriz_cinza, histograma, limiar_final,
                   limiar_bin, matriz_binaria>>

IteracaoBreak ==
    /\ pc = "laco"
    /\ ~OtsuTerminou(otsu)
    /\ RamoDe(histograma, otsu) = "break"
    /\ otsu' = OtsuPasso(histograma, otsu)
    /\ UNCHANGED <<pc, imagem_rgb, matriz_cinza, histograma, limiar_final,
                   limiar_bin, matriz_binaria>>

IteracaoPontua ==
    /\ pc = "laco"
    /\ ~OtsuTerminou(otsu)
    /\ RamoDe(histograma, otsu) = "pontuado"
    /\ otsu' = OtsuPasso(histograma, otsu)
    /\ UNCHANGED <<pc, imagem_rgb, matriz_cinza, histograma, limiar_final,
                   limiar_bin, matriz_binaria>>

Retorna ==
    /\ pc = "laco"
    /\ OtsuTerminou(otsu)
    /\ limiar_final' = OtsuRetorno(otsu)
    /\ pc' = "retornou"
    /\ UNCHANGED <<imagem_rgb, matriz_cinza, histograma, otsu, limiar_bin,
                   matriz_binaria>>

NextOtsu == IteracaoContinue \/ IteracaoBreak \/ IteracaoPontua \/ Retorna

SpecOtsu == InitOtsu /\ [][NextOtsu]_vars

(***************************************************************************)
(* processar_imagem_completo (lines 245-254) without its file and plot     *)
(* steps, and the direct calls of calcular_histograma and binarizar_imagem *)
(* on a grayscale matrix.                                                  *)
(***************************************************************************)
MaxCanal == 2

MaxArea == 3

Canais == 0..MaxCanal \cup {100, 150, 200, 255}

TonsMatriz == {0, 50, 200, 255}

LimiaresDiretos == {0, 1, 49, 50, 51, 199, 200, 254, 255}

\* images of one pixel
ImagensRgb == {<< << <<r, g, b>> >> >> : r \in Canais, g \in Canais, b \in Canais}

Formas == {f \in (1..MaxArea) \X (1..MaxArea) : f[1] * f[2] <= MaxArea}

MatrizesCinza == UNION {[1..f[1] -> [1..f[2] -> TonsMatriz]] : f \in Formas}

\* 80 x 120, the upper half of value 50 and the lower half of value 200
MatrizMetades ==
    [i \in 1..80 |-> [j \in 1..120 |-> IF i <= 40 THEN 50 ELSE 200]]

Init ==
    /\ \/ /\ imagem_rgb \in ImagensRgb
          /\ matriz_cinza = Nenhum
          /\ pc = "rgb"
       \/ /\ imagem_rgb = Nenhum
          /\ matriz_cinza \in MatrizesCinza \cup {MatrizMetades}
          /\ pc = "cinza"
    /\ histograma = Nenhum
    /\ otsu = Nenhum
    /\ limiar_final = Nenhum
    /\ limiar_bin = Nenhum
    /\ matriz_binaria = Nenhum

\* line 245
RgbParaCinza ==
    /\ pc = "rgb"
    /\ matriz_cinza' = rgb_para_cinza(imagem_rgb)
    /\ pc' = "cinza"
    /\ UNCHANGED <<imagem_rgb, histograma, otsu, limiar_final, limiar_bin,
                   matriz_binaria>>

\* line 248
CalcularHistograma ==
    /\ pc = "cinza"
    /\ histograma' = calcular_histograma(matriz_cinza)
    /\ pc' = "histograma"
    /\ UNCHANGED <<imagem_rgb, matriz_cinza, otsu, limiar_final, limiar_bin,
                   matriz_binaria>>

\* line 251
CalcularLimiarOtsu ==
    /\ pc = "histograma"
    /\ otsu' = OtsuLaco(histograma, OtsuInicio(histograma))
    /\ limiar_final' = OtsuRetorno(otsu')
    /\ pc' = "limiar"
    /\ UNCHANGED <<imagem_rgb, matriz_cinza, histograma, limiar_bin,
                   matriz_binaria>>

\* line 254
BinarizarImagem ==
    /\ pc = "limiar"
    /\ limiar_bin' = limiar_final
    /\ matriz_binaria' = binarizar_imagem(matriz_cinza, limiar_final)
    /\ pc' = "binarizada"
    /\ UNCHANGED <<imagem_rgb, matriz_cinza, histograma, otsu, limiar_final>>

\* binarizar_imagem called with a threshold of the caller's choice
BinarizarDireto ==
    /\ pc = "cinza"
    /\ imagem_rgb = Nenhum
    /\ \E limiar \in LimiaresDiretos :
          /\ limiar_bin' = limiar
          /\ matriz_binaria' = binarizar_imagem(matriz_cinza, limiar)
    /\ pc' = "binarizada_direto"
    /\ UNCHANGED <<imagem_rgb, matriz_cinza, histograma, otsu, limiar_final>>

Next ==
    \/ RgbParaCinza
    \/ CalcularHistograma
    \/ CalcularLimiarOtsu
    \/ BinarizarImagem
    \/ BinarizarDireto

Spec == Init /\ [][Next]_vars

(***************************************************************************)
(* Definitions the properties are stated with.  They take the weights of   *)
(* a candidate from the histogram itself (w_bg(t) is the sum of            *)
(* histogram[0..t]), not from the running sums of the loop.                *)
(***************************************************************************)
\* the sequence of the sums of h[0..t] (or of i * h[i]), at index t + 1
RECURSIVE Prefixos(_, _, _, _, _)
Prefixos(h, lo, hi, base, ponderada) ==
    IF lo = hi THEN <<base + (IF ponderada THEN lo * h[lo] ELSE h[lo])>>
    ELSE LET meio == (lo + hi) \div 2
             esq  == Prefixos(h, lo, meio, base, ponderada)
         IN  esq \o Prefixos(h, meio + 1, hi, esq[Len(esq)], ponderada)

Pesos(h) == Prefixos(h, 0, Niveis - 1, 0, FALSE)

Somas(h) == Prefixos(h, 0, Niveis - 1, 0, TRUE)

\* the candidates with w_bg(t) > 0 and w_fg(t) > 0
Candidatos(w) == {t \in Tons : w[t + 1] > 0 /\ w[Niveis] - w[t + 1] > 0}

\* the score of candidate t as binary64 arithmetic gives it
Pontuacao(w, s, t) ==
    Variancia(s[t + 1], w[t + 1], s[Niveis], w[Niveis] - w[t + 1])

\* the score of candidate t as a fraction of natural numbers:
\* w_bg * w_fg * (s_bg / w_bg - s_fg / w_fg)^2 = (s_bg * w_fg - s_fg * w_bg)^2 / (w_bg * w_fg)
PontuacaoExata(w, s, t) ==
    LET a == MulN(NatOf(s[t + 1]), NatOf(w[Niveis] - w[t + 1]))
        b == MulN(NatOf(s[Niveis] - s[t + 1]), NatOf(w[t + 1]))
        d == IF CmpN(a, b) >= 0 THEN SubN(a, b) ELSE SubN(b, a)
    IN  [num |-> MulN(d, d), den |-> NatOf(w[t + 1] * (w[Niveis] - w[t + 1]))]

\* x < y for fractions
MenorExato(x, y) == CmpN(MulN(x.num, y.den), MulN(y.num, x.den)) < 0

NaoNulos(h) == {t \in Tons : h[t] > 0}

Minimo(S) == CHOOSE x \in S : \A y \in S : x <= y

Maximo(S) == CHOOSE x \in S : \A y \in S : x >= y

\* the number of pixels of m of the given value, counted row by row
ContaPixels(m, valor) ==
    LET naLinha(i) ==
            SomaEntre([j \in 1..Largura(m) |-> IF m[i][j] = valor THEN 1 ELSE 0],
                      1, Largura(m), FALSE)
    IN  SomaEntre([i \in 1..Altura(m) |-> naLinha(i)], 1, Altura(m), FALSE)

Binaria(m) == \A p \in Posicoes(m) : m[p[1]][p[2]] \in {0, 255}

(***************************************************************************)
(* C1.  When calcular_limiar_otsu has returned, and the histogram has a    *)
(* candidate t with w_bg(t) > 0 and w_fg(t) > 0, the returned threshold is *)
(* such a candidate and no candidate has a greater score: the stop at      *)
(* w_fg = 0 skips no candidate with a higher score.                        *)
(***************************************************************************)
C1_MaximizaVariancia ==
    pc = "retornou" =>
        LET w == Pesos(histograma)
            s == Somas(histograma)
            c == Candidatos(w)
        IN  c # {} =>
              /\ limiar_final \in c
              /\ \A t \in c :
                    ~Fgt(Pontuacao(w, s, t), Pontuacao(w, s, limiar_final))

\* a histogram whose scan stopped early and returned a threshold above the
\* first candidate, with a strictly greater score than that candidate's
C1_Witness ==
    /\ pc = "retornou"
    /\ otsu.ramo = "break"
    /\ otsu.limiar < Niveis - 1
    /\ LET w == Pesos(histograma)
           s == Somas(histograma)
           c == Candidatos(w)
       IN  /\ c # {}
           /\ limiar_final > Minimo(c)
           /\ Fgt(Pontuacao(w, s, limiar_final), Pontuacao(w, s, Minimo(c)))

(***************************************************************************)
(* C2 as stated, the score being the between-class variance itself: no     *)
(* candidate below the returned threshold has a variance equal to or       *)
(* greater than the returned threshold's.                                  *)
(***************************************************************************)
C2_Original ==
    pc = "retornou" =>
        LET w == Pesos(histograma)
            s == Somas(histograma)
            c == Candidatos(w)
        IN  c # {} =>
              /\ limiar_final \in c
              /\ \A t \in c :
                    t < limiar_final =>
                        MenorExato(PontuacaoExata(w, s, t),
                                   PontuacaoExata(w, s, limiar_final))

(***************************************************************************)
(* C2, amended.  The score being the value binary64 arithmetic computes:   *)
(* every candidate below the returned threshold has a strictly smaller     *)
(* computed score, so among candidates of equal computed score the lowest  *)
(* is returned.                                                            *)
(***************************************************************************)
C2_EmpateMenorLimiar ==
    pc = "retornou" =>
        LET w == Pesos(histograma)
            s == Somas(histograma)
            c == Candidatos(w)
        IN  c # {} =>
              /\ limiar_final \in c
              /\ \A t \in c :
                    /\ t < limiar_final =>
                          Fgt(Pontuacao(w, s, limiar_final), Pontuacao(w, s, t))
                    /\ Pontuacao(w, s, t) = Pontuacao(w, s, limiar_final) =>
                          limiar_final <= t

\* two candidates of different weights tie with the returned threshold, which
\* is the lower one
C2_Witness ==
    /\ pc = "retornou"
    /\ LET w == Pesos(histograma)
           s == Somas(histograma)
           c == Candidatos(w)
       IN  /\ c # {}
           /\ \E t \in c :
                 /\ t > limiar_final
                 /\ w[t + 1] # w[limiar_final + 1]
                 /\ Pontuacao(w, s, t) = Pontuacao(w, s, limiar_final)

(***************************************************************************)
(* C3.  With a single non-zero bin, at intensity k: no candidate is ever   *)
(* scored, the iterations before k are skipped, the scan stops at t = k    *)
(* and 0 is returned.                                                      *)
(***************************************************************************)
C3_UmTomRetornaZero ==
    Cardinality(NaoNulos(histograma)) = 1 =>
        LET k == Minimo(NaoNulos(histograma))
        IN  /\ otsu.ramo # "pontuado"
            /\ otsu.limiar <= k
            /\ otsu.limiar < k => otsu.ramo \in {"inicio", "continue"}
            /\ otsu.limiar = k => otsu.ramo = "break"
            /\ pc = "laco" /\ otsu.ramo # "break" => ~OtsuTerminou(otsu)
            /\ pc = "retornou" => limiar_final = 0 /\ otsu.limiar = k

C3_Witness ==
    /\ pc = "retornou"
    /\ NaoNulos(histograma) = {200}
    /\ histograma[200] > 1
    /\ limiar_final = 0

(***************************************************************************)
(* C9.  After every iteration that scored its candidate t, the running     *)
(* background weight is the sum of histogram[0..t] and the running         *)
(* background intensity sum is the sum of i * histogram[i] for i in 0..t.  *)
(***************************************************************************)
C9_SomasCorrentes ==
    otsu.ramo = "pontuado" =>
        /\ otsu.peso_fundo = SomaAte(histograma, otsu.limiar)
        /\ otsu.soma_fundo = SomaPonderadaAte(histograma, otsu.limiar)

\* a scored candidate after skipped iterations and after bins of more than
\* one pixel
C9_Witness ==
    /\ otsu.ramo = "pontuado"
    /\ histograma[0] = 0
    /\ histograma[1] = 1
    /\ histograma[2] = 2
    /\ otsu.limiar = 2
    /\ otsu.peso_fundo = 3
    /\ otsu.soma_fundo = 5

(***************************************************************************)
(* C4.  The matrix binarizar_imagem returns has the dimensions of its      *)
(* argument, holds only 0 and 255, and holds 255 exactly where the         *)
(* grayscale value is strictly above the threshold.                        *)
(***************************************************************************)
C4_RegraBinarizacao ==
    pc \in {"binarizada", "binarizada_direto"} =>
        /\ limiar_bin \in Tons
        /\ Altura(matriz_binaria) = Altura(matriz_cinza)
        /\ Largura(matriz_binaria) = Largura(matriz_cinza)
        /\ \A i \in 1..Altura(matriz_cinza) :
              Len(matriz_binaria[i]) = Len(matriz_cinza[i])
        /\ \A p \in Posicoes(matriz_cinza) :
              LET cinza   == matriz_cinza[p[1]][p[2]]
                  binario == matriz_binaria[p[1]][p[2]]
              IN  /\ binario \in {0, 255}
                  /\ binario = 255 <=> cinza >= limiar_bin + 1
                  /\ cinza = limiar_bin => binario = 0

\* a pixel equal to the threshold beside one above it
C4_Witness ==
    /\ pc = "binarizada_direto"
    /\ limiar_bin = 50
    /\ matriz_cinza = << <<50, 200, 0>> >>
    /\ matriz_binaria = << <<0, 255, 0>> >>

(***************************************************************************)
(* C5.  The histogram has the 256 entries 0..255, entry i is the number of *)
(* pixels of value i, and the entries sum to height x width.               *)
(***************************************************************************)
C5_Histograma ==
    pc \in {"histograma", "limiar", "binarizada"} =>
        /\ DOMAIN histograma = 0..255
        /\ \A i \in 0..255 : histograma[i] = ContaPixels(matriz_cinza, i)
        /\ SomaAte(histograma, 255)
             = Altura(matriz_cinza) * Largura(matriz_cinza)

C5_Witness ==
    /\ pc = "histograma"
    /\ Altura(matriz_cinza) = 3
    /\ histograma[255] = 2
    /\ histograma[50] = 1

(***************************************************************************)
(* C6.  For the 80 x 120 matrix with 4800 pixels of value 50 and 4800 of   *)
(* value 200: the histogram is 4800 at 50 and at 200 and 0 elsewhere, the  *)
(* threshold returned is 50, and binarization sends every pixel of value   *)
(* 50 to 0 and every pixel of value 200 to 255.                            *)
(***************************************************************************)
C6_Metades ==
    Altura(matriz_cinza) = 80 =>
        /\ matriz_cinza = MatrizMetades
        /\ ContaPixels(matriz_cinza, 50) = 4800
        /\ ContaPixels(matriz_cinza, 200) = 4800
        /\ pc \in {"histograma", "limiar", "binarizada"} =>
              \A t \in Tons :
                  histograma[t] = IF t \in {50, 200} THEN 4800 ELSE 0
        /\ pc \in {"limiar", "binarizada"} =>
              /\ limiar_final = 50
              /\ 50 <= limiar_final /\ limiar_final < 200
        /\ pc = "binarizada" =>
              /\ limiar_bin = 50
              /\ \A p \in Posicoes(matriz_cinza) :
                    /\ matriz_cinza[p[1]][p[2]] = 50 =>
                          matriz_binaria[p[1]][p[2]] = 0
                    /\ matriz_cinza[p[1]][p[2]] = 200 =>
                          matriz_binaria[p[1]][p[2]] = 255

C6_Witness ==
    /\ pc = "binarizada"
    /\ Altura(matriz_cinza) = 80
    /\ Largura(matriz_cinza) = 120
    /\ limiar_bin = 50
    /\ matriz_binaria[1][1] = 0
    /\ matriz_binaria[80][120] = 255

(***************************************************************************)
(* C7 as stated: the grayscale value is the weighted sum                   *)
(* (299R + 587G + 114B) / 1000 rounded to the nearest integer.             *)
(***************************************************************************)
C7_Original ==
    imagem_rgb # Nenhum /\ pc # "rgb" =>
        LET px    == imagem_rgb[1][1]
            e     == 299 * px[1] + 587 * px[2] + 114 * px[3]
            cinza == matriz_cinza[1][1]
        IN  /\ cinza \in 0..255
            /\ 2 * e - 1000 <= 2000 * cinza
            /\ 2000 * cinza <= 2 * e + 1000

(***************************************************************************)
(* C7, amended.  The grayscale value is the binary64 weighted sum with its *)
(* fraction dropped: it is floor((299R + 587G + 114B) / 1000), or one less *)
(* than that where 299R + 587G + 114B is a multiple of 1000 and the        *)
(* binary64 sum falls below it; (100,150,200) gives 140, (255,255,255)     *)
(* gives 255, (0,0,0) gives 0.                                             *)
(***************************************************************************)
C7_CinzaTruncada ==
    imagem_rgb # Nenhum /\ pc # "rgb" =>
        LET px    == imagem_rgb[1][1]
            e     == 299 * px[1] + 587 * px[2] + 114 * px[3]
            cinza == matriz_cinza[1][1]
        IN  /\ Altura(matriz_cinza) = Altura(imagem_rgb)
            /\ Largura(matriz_cinza) = Largura(imagem_rgb)
            /\ cinza \in 0..255
            /\ cinza \in {e \div 1000, e \div 1000 - 1}
            /\ e % 1000 # 0 => cinza = e \div 1000
            /\ px = <<100, 150, 200>> => cinza = 140
            /\ px = <<255, 255, 255>> => cinza = 255
            /\ px = <<0, 0, 0>> => cinza = 0

C7_Witness ==
    /\ pc = "cinza"
    /\ imagem_rgb = << << <<100, 150, 200>> >> >>
    /\ matriz_cinza = << <<140>> >>

(***************************************************************************)
(* C8.  Binarizing at threshold 0 a matrix that holds only 0 and 255       *)
(* returns that matrix.                                                    *)
(***************************************************************************)
C8_IdempotenteEmZero ==
    pc = "binarizada_direto" /\ limiar_bin = 0 /\ Binaria(matriz_cinza) =>
        matriz_binaria = matriz_cinza

C8_Witness ==
    /\ pc = "binarizada_direto"
    /\ limiar_bin = 0
    /\ matriz_cinza = << <<0>>, <<255>>, <<0>> >>
    /\ matriz_binaria = matriz_cinza

(***************************************************************************)
(* C10.  The threshold returned is an integer in 0..255.  When the         *)
(* histogram of the matrix has at least two non-zero bins, the lowest at   *)
(* kmin and the highest at kmax, the threshold t returned satisfies        *)
(* kmin <= t < kmax, and the matrix binarized at it holds at least one 0   *)
(* and at least one 255.                                                   *)
(***************************************************************************)
C10_LimiarEntreExtremos ==
    pc \in {"limiar", "binarizada"} =>
        /\ limiar_final \in 0..255
        /\ Cardinality(NaoNulos(histograma)) >= 2 =>
              /\ Minimo(NaoNulos(histograma)) <= limiar_final
              /\ limiar_final < Maximo(NaoNulos(histograma))
              /\ pc = "binarizada" =>
                    /\ \E p \in Posicoes(matriz_binaria) :
                          matriz_binaria[p[1]][p[2]] = 0
                    /\ \E p \in Posicoes(matriz_binaria) :
                          matriz_binaria[p[1]][p[2]] = 255

\* three non-zero bins, and a threshold above the lowest of them
C10_Witness ==
    /\ pc = "binarizada"
    /\ Cardinality(NaoNulos(histograma)) = 3
    /\ limiar_final > Minimo(NaoNulos(histograma))
    /\ limiar_final < Maximo(NaoNulos(histograma))

=============================================================================
